---- MODULE Spec2Model ----
(***************************************************************************)
(* A model of src/stock_screener.py: the analytics of class StockScreener  *)
(* (calculate_ma, is_ma_trending_up, check_bottom_cross_ma200,             *)
(* check_golden_cross, calculate_win_rate), the per-symbol pipeline        *)
(* screen_stock and the loop scan_all_stocks.                              *)
(*                                                                         *)
(* Numbers.  The program computes with float64.  A number is modelled as   *)
(* an exact fraction <<n, d>> with d > 0, and the float NaN as <<0, 0>>.   *)
(* Comparisons follow IEEE/Python: every comparison with NaN is false.     *)
(* Rounding of float arithmetic is not modelled.                           *)
(*                                                                         *)
(* Sequences are 1-based here and 0-based in the program: the program's    *)
(* position i is the model's position i + 1.                               *)
(***************************************************************************)
EXTENDS Integers, Sequences, FiniteSets, TLC

VARIABLES
    min_volume,  \* self.min_volume
    pc,          \* scan_all_stocks: "start", "loop", "done", "aborted"
    max_stocks,  \* scan_all_stocks' argument: NoMax (None) or an integer
    stocks,      \* stocks_df after the optional head(max_stocks)
    idx,         \* number of rows of stocks_df the loop has consumed
    results,     \* the local list `results` of scan_all_stocks
    log,         \* history: per consumed row, what the provider gave and the verdict
    fn,          \* the method under call (single-call specification)
    args,        \* its arguments
    ret          \* its outcome: pending, returned a value, or raised

vars == <<min_volume, pc, max_stocks, stocks, idx, results, log, fn, args, ret>>

scanVars == <<pc, max_stocks, stocks, idx, results, log>>
callVars == <<fn, args, ret>>

----------------------------------------------------------------------------
(* Bounds of the model *)

\* longest moving-average series handed to is_ma_trending_up / calculate_ma
MaxLen == 5
\* longest moving-average series handed to check_golden_cross
MaxCrossLen == 3
\* calendar days 1..MaxDay a backtest history can hold
MaxDay == 3
\* largest forward_days tried
MaxForward == 2
\* longest price history a provider response holds
MaxBars == 9
\* longest signal_dates list
MaxSignals == 2
\* number of symbol codes get_jpx_stock_list generates (8499 in the program)
NCodes == 3
\* The program's window lengths, scaled down so that histories stay small.
\* 200 bars of minimum history (line 163)
MIN_BARS == 4
\* rolling windows 50, 100 and 200 (lines 182-184)
MA_SHORT == 2
MA_MID == 3
MA_LONG == 4
\* tail(30) of the traded value (line 176)
TAIL == 2

(* Program constants *)
DEFAULT_LOOKBACK == 5
DEFAULT_MIN_VOLUME == 1000000
STABLE_MIN == 100000000
STANDARD_MIN == 10000000

----------------------------------------------------------------------------
(* float64 values as exact fractions, NaN as <<0, 0>> *)

NaN == <<0, 0>>
Num(k) == <<k, 1>>
IsNaN(a) == a[2] = 0

Lt(a, b) == ~IsNaN(a) /\ ~IsNaN(b) /\ a[1] * b[2] < b[1] * a[2]
Le(a, b) == ~IsNaN(a) /\ ~IsNaN(b) /\ a[1] * b[2] <= b[1] * a[2]
Gt(a, b) == Lt(b, a)
Ge(a, b) == Le(b, a)

Add(a, b) == IF IsNaN(a) \/ IsNaN(b) THEN NaN ELSE <<a[1] * b[2] + b[1] * a[2], a[2] * b[2]>>
Sub(a, b) == IF IsNaN(a) \/ IsNaN(b) THEN NaN ELSE <<a[1] * b[2] - b[1] * a[2], a[2] * b[2]>>
Mul(a, b) == IF IsNaN(a) \/ IsNaN(b) THEN NaN ELSE <<a[1] * b[1], a[2] * b[2]>>
\* a / k for an integer k > 0
DivInt(a, k) == IF IsNaN(a) THEN NaN ELSE <<a[1], a[2] * k>>

RECURSIVE SumSeq(_)
SumSeq(s) == IF s = <<>> THEN Num(0) ELSE Add(s[1], SumSeq(Tail(s)))

Mean(s) == IF s = <<>> THEN NaN ELSE DivInt(SumSeq(s), Len(s))

(* Outcomes of a call *)
Pending == [st |-> "pending", val |-> <<>>]
Returned(v) == [st |-> "returned", val |-> v]
Raised == [st |-> "raised", val |-> <<>>]

\* pandas: s.iloc[-k:] for k >= 1 (the last k elements, all of s when k > len)
LastK(s, k) == IF k >= Len(s) THEN s ELSE SubSeq(s, Len(s) - k + 1, Len(s))
\* pandas: s.iloc[i] for a 0-based i; negative i counts from the end;
\* out of range raises IndexError (here: position 0)
ILoc(n, i) == IF i >= 0 /\ i < n THEN i + 1 ELSE IF i < 0 /\ i >= -n THEN n + i + 1 ELSE 0

----------------------------------------------------------------------------
(* calculate_ma: prices.rolling(window=period).mean() *)

\* pandas raises ValueError for a negative window; window = 0 is accepted and
\* every window is then empty (NaN); min_periods defaults to the window, so
\* the first period-1 entries and any window holding a NaN give NaN.
\* mutant: rolling(window=period, min_periods=1)
calculate_ma_min_periods_1(prices, period) ==
    IF period < 0 THEN Raised
    ELSE Returned([i \in 1..Len(prices) |->
            IF period = 0 THEN NaN
            ELSE Mean(SubSeq(prices, IF i < period THEN 1 ELSE i - period + 1, i))])

calculate_ma(prices, period) ==
    IF period < 0 THEN Raised
    ELSE Returned([i \in 1..Len(prices) |->
            IF period = 0 \/ i < period THEN NaN
            ELSE Mean(SubSeq(prices, i - period + 1, i))])

----------------------------------------------------------------------------
(* is_ma_trending_up *)

\* np.arange(n) as Nums
Arange(n) == [i \in 1..n |-> Num(i - 1)]
Pointwise(x, y) == [i \in 1..Len(x) |-> Mul(x[i], y[i])]

\* np.polyfit(x, y, 1)[0]: the least-squares slope, from the normal equations
\*   (n*Sxy - Sx*Sy) / (n*Sxx - Sx*Sx).
\* A NaN in y makes the fitted coefficients NaN.  (For a single point the
\* fit is not determined; no call of the model uses lookback = 1.)
polyfit_slope(x, y) ==
    LET n   == Len(x)
        Sx  == SumSeq(x)
        Sy  == SumSeq(y)
        Sxy == SumSeq(Pointwise(x, y))
        Sxx == SumSeq(Pointwise(x, x))
        num == Sub(Mul(Num(n), Sxy), Mul(Sx, Sy))
        den == Sub(Mul(Num(n), Sxx), Mul(Sx, Sx))
    IN  IF IsNaN(num) \/ den[1] = 0 THEN NaN ELSE DivInt(num, den[1])

\* mutant: slope >= 0
is_ma_trending_up_ge(ma, lookback) ==
    IF Len(ma) < lookback THEN Returned(FALSE)
    ELSE IF lookback <= 0 THEN Raised
    ELSE Returned(Ge(polyfit_slope(Arange(lookback), LastK(ma, lookback)), Num(0)))

is_ma_trending_up(ma, lookback) ==
    IF Len(ma) < lookback THEN Returned(FALSE)
    \* lookback <= 0: np.arange(lookback) is empty and np.polyfit raises
    \* TypeError("expected non-empty vector for x")
    ELSE IF lookback <= 0 THEN Raised
    ELSE LET recent_ma == LastK(ma, lookback)
             x == Arange(lookback)
             slope == polyfit_slope(x, recent_ma)
         IN  Returned(Gt(slope, Num(0)))

----------------------------------------------------------------------------
(* check_bottom_cross_ma200: low <= ma200 < close *)

\* mutant: low < ma200 <= close
check_bottom_cross_ma200_shifted(low, close, ma200) == Lt(low, ma200) /\ Le(ma200, close)

check_bottom_cross_ma200(low, close, ma200) == Le(low, ma200) /\ Lt(ma200, close)

(* check_golden_cross *)

\* mutant: the previous day compared with <=
check_golden_cross_le(ma_short, ma_long) ==
    IF Len(ma_short) < 2 \/ Len(ma_long) < 2 THEN FALSE
    ELSE /\ Le(ma_short[Len(ma_short) - 1], ma_long[Len(ma_long) - 1])
         /\ Ge(ma_short[Len(ma_short)], ma_long[Len(ma_long)])

check_golden_cross(ma_short, ma_long) ==
    IF Len(ma_short) < 2 \/ Len(ma_long) < 2 THEN FALSE
    ELSE LET prev_short == ma_short[Len(ma_short) - 1]
             prev_long  == ma_long[Len(ma_long) - 1]
             curr_short == ma_short[Len(ma_short)]
             curr_long  == ma_long[Len(ma_long)]
         IN  Lt(prev_short, prev_long) /\ Ge(curr_short, curr_long)

----------------------------------------------------------------------------
(* calculate_win_rate *)

\* A price history (DataFrame): a sequence of bars, the index being the dates.
Bar(d, l, c, v) == [Date |-> d, Low |-> l, Close |-> c, Volume |-> v]

\* data.index.get_loc(date): the 0-based position of date, -1 for KeyError
get_loc(data, date) ==
    IF \E i \in 1..Len(data) : data[i].Date = date
    THEN (CHOOSE i \in 1..Len(data) : data[i].Date = date) - 1
    ELSE -1

\* mutant: total counted before the forward window is checked
win_rate_step_counts_recent(data, signal_date, forward_days, acc) ==
    LET signal_idx == get_loc(data, signal_date)
    IN  IF signal_idx < 0 THEN acc
        ELSE IF ~(signal_idx + forward_days < Len(data)) THEN <<acc[1], acc[2] + 1>>
        ELSE LET e == ILoc(Len(data), signal_idx)
                 x == ILoc(Len(data), signal_idx + forward_days)
             IN  IF x = 0 THEN acc
                 ELSE <<acc[1] + (IF Gt(data[x].Close, data[e].Close) THEN 1 ELSE 0),
                        acc[2] + 1>>

\* one pass of the loop body (lines 134-143) on the counters acc = <<wins, total>>
win_rate_step(data, signal_date, forward_days, acc) ==
    LET signal_idx == get_loc(data, signal_date)
    IN  IF signal_idx < 0 THEN acc                       \* KeyError -> except: continue
        ELSE IF ~(signal_idx + forward_days < Len(data)) THEN acc
        ELSE LET e == ILoc(Len(data), signal_idx)
                 x == ILoc(Len(data), signal_idx + forward_days)
             IN  IF x = 0 THEN acc                       \* IndexError -> except: continue
                 ELSE <<acc[1] + (IF Gt(data[x].Close, data[e].Close) THEN 1 ELSE 0),
                        acc[2] + 1>>

RECURSIVE win_rate_loop(_, _, _, _)
win_rate_loop(data, signal_dates, forward_days, acc) ==
    IF signal_dates = <<>> THEN acc
    ELSE win_rate_loop(data, Tail(signal_dates), forward_days,
                       win_rate_step(data, signal_dates[1], forward_days, acc))

calculate_win_rate(data, signal_dates, forward_days) ==
    IF signal_dates = <<>> THEN Returned(Num(0))
    ELSE LET acc == win_rate_loop(data, signal_dates, forward_days, <<0, 0>>)
             wins == acc[1]
             total == acc[2]
         IN  Returned(IF total > 0 THEN <<wins * 100, total>> ELSE Num(0))

----------------------------------------------------------------------------
(* screen_stock *)

\* What yfinance gives for one ticker (the external provider):
\*   kind  "error"     ticker.history raises (network error, missing ticker)
\*         "malformed" a frame whose rows lack the Close column
\*         "ok"        a frame of bars (no rows: data.empty)
\*   info  what ticker.info gives: it raises, or holds longName / shortName
\*         ("" when the key is missing)
Response(kind, bars, info) == [kind |-> kind, bars |-> bars, info |-> info]
Info(raises, longName, shortName) ==
    [raises |-> raises, longName |-> longName, shortName |-> shortName]

\* The dict returned on acceptance and Python's None.  The labels stand for
\* the program's strings: "up" for the trend label, "yes"/"-" for the check
\* mark and the dash, "stable"/"standard"/"speculative" for the three tags.
None == [isNone |-> TRUE]
IsNone(r) == r.isNone

\* mutant: strict lower bounds
risk_tag_of_strict(avg_volume_30d) ==
    IF Gt(avg_volume_30d, Num(STABLE_MIN)) THEN "stable"
    ELSE IF Gt(avg_volume_30d, Num(STANDARD_MIN)) THEN "standard"
    ELSE "speculative"

\* lines 206-211
risk_tag_of(avg_volume_30d) ==
    IF Ge(avg_volume_30d, Num(STABLE_MIN)) THEN "stable"
    ELSE IF Ge(avg_volume_30d, Num(STANDARD_MIN)) THEN "standard"
    ELSE "speculative"

\* lines 167-172: the name is looked up only when it equals the code
resolve_name(code, name, info) ==
    IF name # code THEN name
    ELSE IF info.raises THEN code
    ELSE IF info.longName # "" THEN info.longName
    ELSE IF info.shortName # "" THEN info.shortName
    ELSE code

Closes(data) == [i \in 1..Len(data) |-> data[i].Close]
VolumeYen(data) == [i \in 1..Len(data) |-> Mul(data[i].Close, Num(data[i].Volume))]

\* mutant: the mean of the whole column, not of its tail
avg_volume_30d_whole(data) == Mean(VolumeYen(data))

\* lines 175-176: data['Volume_Yen'].tail(30).mean()
avg_volume_30d_of(data) == Mean(LastK(VolumeYen(data), TAIL))

\* An outcome of screen_stock also names the place it returned from:
\*   "InsufficientHistory" line 164, "IlliquidHistory" line 179,
\*   "NoUptrend" line 191, "NoSignal" line 225, "Accepted" line 213,
\*   "Error" line 229 (an exception was swallowed).
At(outcome, place) == [st |-> outcome.st, val |-> outcome.val, at |-> place]

\* lines 159-225, the body of the try block; it may raise
screen_stock_try(code, name, resp, minvol) ==
    IF resp.kind = "error" THEN At(Raised, "history")
    ELSE LET data == resp.bars IN
    IF Len(data) = 0 \/ Len(data) < MIN_BARS THEN At(Returned(None), "InsufficientHistory")
    ELSE LET name2 == resolve_name(code, name, resp.info) IN
    IF resp.kind = "malformed" THEN At(Raised, "Close")     \* KeyError: 'Close'
    ELSE LET avg_volume_30d == avg_volume_30d_of(data) IN
    IF Lt(avg_volume_30d, Num(minvol)) THEN At(Returned(None), "IlliquidHistory")
    ELSE LET MA50   == calculate_ma(Closes(data), MA_SHORT)
             MA100  == calculate_ma(Closes(data), MA_MID)
             MA200  == calculate_ma(Closes(data), MA_LONG)
         IN
    IF MA50.st = "raised" \/ MA100.st = "raised" \/ MA200.st = "raised"
    THEN At(Raised, "calculate_ma")
    ELSE LET latest == data[Len(data)]
             trend  == is_ma_trending_up(MA200.val, DEFAULT_LOOKBACK)
         IN
    IF trend.st = "raised" THEN At(Raised, "is_ma_trending_up")
    ELSE IF ~trend.val THEN At(Returned(None), "NoUptrend")
    ELSE LET bottom_cross == check_bottom_cross_ma200(latest.Low, latest.Close,
                                                       MA200.val[Len(data)])
             golden_cross == check_golden_cross(MA50.val, MA100.val)
         IN
    IF bottom_cross \/ golden_cross
    THEN At(Returned([isNone |-> FALSE,
                      code |-> code,
                      name |-> name2,
                      price |-> latest.Close,
                      ma200_trend |-> "up",
                      bottom_cross |-> IF bottom_cross THEN "yes" ELSE "-",
                      golden_cross |-> IF golden_cross THEN "yes" ELSE "-",
                      avg_volume_30d |-> avg_volume_30d,
                      risk_tag |-> risk_tag_of(avg_volume_30d),
                      date |-> latest.Date]), "Accepted")
    ELSE At(Returned(None), "NoSignal")

\* mutant: no except clause, the exception leaves screen_stock
screen_stock_no_except(code, name, resp, minvol) == screen_stock_try(code, name, resp, minvol)

\* lines 158 and 227-229: except Exception -> return None
screen_stock(code, name, resp, minvol) ==
    LET r == screen_stock_try(code, name, resp, minvol)
    IN  IF r.st = "raised" THEN At(Returned(None), "Error") ELSE r

----------------------------------------------------------------------------
(* Inputs of the single-call specification *)

SeqsUpTo(S, n) == UNION {[1..k -> S] : k \in 0..n}

PriceVals == {Num(1), Num(2), Num(4)}
MAVals == {NaN, Num(1), Num(2), Num(3)}
CrossVals == {NaN, Num(1), Num(2)}
\* lookback = 1 is left out: a line through one point is not determined
Lookbacks == {-1, 0, 2, 3, DEFAULT_LOOKBACK}
MinVolumes == {DEFAULT_MIN_VOLUME, 20000000}
\* share volumes; with closes 1 and 2 and TAIL = 2 the averages reach
\* 1,000,000, 9,999,999, 10,000,000, 99,999,999 and 100,000,000 exactly
VolVals == {0, 500000, 5000000, 6666666, 50000000, 66666666}
Infos == {Info(TRUE, "", ""), Info(FALSE, "Toyota Motor", "TOYOTA"), Info(FALSE, "", "TOYOTA"),
          Info(FALSE, "", "")}

\* the sequence of the elements of a set of integers, increasing
SortedSeq(S) ==
    CHOOSE q \in [1..Cardinality(S) -> S] : \A i, j \in 1..Cardinality(S) : i < j => q[i] < q[j]

\* a backtest history: the days of D in increasing order, closes c (1 or 2)
BacktestHistory(D, c) == [i \in 1..Cardinality(D) |-> Bar(SortedSeq(D)[i], c[i], c[i], 1)]

\* a price history of screen_stock: n consecutive days with closes c (1 or 2),
\* the low equal to the close except on the last day, one volume for every day
PriceHistory(n, c, low, v) ==
    [i \in 1..n |-> Bar(i, IF i = n THEN Num(low) ELSE c[i], c[i], v)]

AllCodes == <<"1300", "1301", "1302", "1303", "1304", "1305">>
NoMax == [none |-> TRUE, n |-> 0]
Max(n) == [none |-> FALSE, n |-> n]

----------------------------------------------------------------------------
(* The single-call specification: one method, called once on drawn inputs *)

\* The arguments drawn for each method
DrawArgs ==
    \/ /\ fn = "calculate_ma"
       /\ \E p \in SeqsUpTo(PriceVals, MaxLen), k \in -1..(MaxLen + 1) :
              args = [prices |-> p, period |-> k]
       /\ min_volume = DEFAULT_MIN_VOLUME
    \/ /\ fn = "is_ma_trending_up"
       /\ \E m \in SeqsUpTo(MAVals, MaxLen), k \in Lookbacks :
              args = [ma |-> m, lookback |-> k]
       /\ min_volume = DEFAULT_MIN_VOLUME
    \/ /\ fn = "check_bottom_cross_ma200"
       /\ \E l \in MAVals, c \in MAVals, m \in MAVals :
              args = [low |-> l, close |-> c, ma200 |-> m]
       /\ min_volume = DEFAULT_MIN_VOLUME
    \/ /\ fn = "check_golden_cross"
       /\ \E a \in SeqsUpTo(CrossVals, MaxCrossLen), b \in SeqsUpTo(CrossVals, MaxCrossLen) :
              args = [ma_short |-> a, ma_long |-> b]
       /\ min_volume = DEFAULT_MIN_VOLUME
    \/ /\ fn = "calculate_win_rate"
       /\ \E D \in SUBSET (1..MaxDay) :
          \E c \in [1..Cardinality(D) -> {Num(1), Num(2)}] :
          \E sd \in SeqsUpTo(1..MaxDay, MaxSignals), k \in -1..MaxForward :
              args = [data |-> BacktestHistory(D, c), signal_dates |-> sd, forward_days |-> k]
       /\ min_volume = DEFAULT_MIN_VOLUME
    \/ /\ fn = "screen_stock"
       /\ \E n \in 0..MaxBars :
          \E c \in [1..n -> {Num(1), Num(2)}] :
          \E low \in 1..2, v \in VolVals, kind \in {"ok", "malformed", "error"}, i \in Infos :
              \* the low is at most the close; the variants of ticker.info and
              \* the failing responses are drawn for one volume only
              /\ n > 0 => low <= c[n][1]
              /\ n = 0 => low = 1
              /\ (kind # "ok" \/ i # Info(TRUE, "", "")) => v = 50000000
              /\ kind = "error" => (n = 0 /\ i = Info(TRUE, "", ""))
              /\ kind = "malformed" => (n > 0 /\ i = Info(TRUE, "", "") /\ \A j \in 1..n : c[j] = Num(1))
              /\ i # Info(TRUE, "", "") => n = MaxBars
              /\ args = [code |-> "1300", name |-> "1300",
                         resp |-> Response(kind, PriceHistory(n, c, low, v), i)]
       /\ min_volume \in MinVolumes

InitCall ==
    /\ pc = "idle"
    /\ max_stocks = NoMax
    /\ stocks = <<>>
    /\ idx = 0
    /\ results = <<>>
    /\ log = <<>>
    /\ ret = Pending
    /\ DrawArgs

Call_calculate_ma ==
    /\ fn = "calculate_ma" /\ ret.st = "pending"
    /\ ret' = calculate_ma(args.prices, args.period)
    /\ UNCHANGED <<min_volume, scanVars, fn, args>>

Call_is_ma_trending_up ==
    /\ fn = "is_ma_trending_up" /\ ret.st = "pending"
    /\ ret' = is_ma_trending_up(args.ma, args.lookback)
    /\ UNCHANGED <<min_volume, scanVars, fn, args>>

Call_check_bottom_cross_ma200 ==
    /\ fn = "check_bottom_cross_ma200" /\ ret.st = "pending"
    /\ ret' = Returned(check_bottom_cross_ma200(args.low, args.close, args.ma200))
    /\ UNCHANGED <<min_volume, scanVars, fn, args>>

Call_check_golden_cross ==
    /\ fn = "check_golden_cross" /\ ret.st = "pending"
    /\ ret' = Returned(check_golden_cross(args.ma_short, args.ma_long))
    /\ UNCHANGED <<min_volume, scanVars, fn, args>>

Call_calculate_win_rate ==
    /\ fn = "calculate_win_rate" /\ ret.st = "pending"
    /\ ret' = calculate_win_rate(args.data, args.signal_dates, args.forward_days)
    /\ UNCHANGED <<min_volume, scanVars, fn, args>>

Call_screen_stock ==
    /\ fn = "screen_stock" /\ ret.st = "pending"
    /\ ret' = screen_stock(args.code, args.name, args.resp, min_volume)
    /\ UNCHANGED <<min_volume, scanVars, fn, args>>

NextCall ==
    \/ Call_calculate_ma
    \/ Call_is_ma_trending_up
    \/ Call_check_bottom_cross_ma200
    \/ Call_check_golden_cross
    \/ Call_calculate_win_rate
    \/ Call_screen_stock

SpecCall == InitCall /\ [][NextCall]_vars

----------------------------------------------------------------------------
(* scan_all_stocks *)

\* get_jpx_stock_list: one row per generated code, the name being the code's
\* text (all codes have four digits, so zfill(4) adds nothing)
get_jpx_stock_list == [i \in 1..NCodes |-> [code |-> AllCodes[i], name |-> AllCodes[i]]]

\* DataFrame.head(n): the first n rows; all but the last -n rows when n < 0
head(df, n) ==
    IF n >= 0 THEN SubSeq(df, 1, IF n < Len(df) THEN n ELSE Len(df))
    ELSE SubSeq(df, 1, IF Len(df) + n > 0 THEN Len(df) + n ELSE 0)

\* `if max_stocks:` None and 0 are falsy
Truthy(m) == ~m.none /\ m.n # 0

\* closing prices the provider may give during a scan
ClosePattern(n, p) ==
    [i \in 1..n |-> CASE p = "flat"  -> Num(1)
                      [] p = "step1" -> IF i = n THEN Num(2) ELSE Num(1)
                      [] p = "step2" -> IF i >= n - 1 THEN Num(2) ELSE Num(1)
                      [] OTHER       -> IF i = n \/ i = n - 3 THEN Num(2) ELSE Num(1)]

ScanResponses ==
    {Response("error", <<>>, Info(TRUE, "", "")),
     Response("malformed", PriceHistory(MaxBars, ClosePattern(MaxBars, "flat"), 1, 50000000),
              Info(TRUE, "", "")),
     Response("ok", <<>>, Info(TRUE, "", "")),
     Response("ok", PriceHistory(MIN_BARS - 1, ClosePattern(MIN_BARS - 1, "step1"), 1, 50000000),
              Info(TRUE, "", ""))}
    \cup {Response("ok", PriceHistory(MaxBars, ClosePattern(MaxBars, p), low, v), Info(TRUE, "", "")) :
            p \in {"flat", "step1", "step2", "dip"}, low \in 1..2, v \in {0, 50000000}}

InitScan ==
    /\ pc = "start"
    /\ max_stocks \in {NoMax} \cup {Max(n) : n \in -1..(NCodes + 1)}
    /\ min_volume = DEFAULT_MIN_VOLUME
    /\ stocks = <<>>
    /\ idx = 0
    /\ results = <<>>
    /\ log = <<>>
    /\ fn = "scan_all_stocks"
    /\ args = <<>>
    /\ ret = Pending

\* lines 237-246
Start ==
    /\ pc = "start"
    /\ stocks' = IF Truthy(max_stocks) THEN head(get_jpx_stock_list, max_stocks.n)
                 ELSE get_jpx_stock_list
    /\ results' = <<>>
    /\ idx' = 0
    /\ pc' = "loop"
    /\ UNCHANGED <<min_volume, max_stocks, log, callVars>>

\* mutant: the new record is put in front
insert_if_result(res, result) == IF ~IsNone(result) THEN <<result>> \o res ELSE res

\* lines 257-258: if result: results.append(result)
append_if_result(res, result) == IF ~IsNone(result) THEN Append(res, result) ELSE res

\* lines 248-262: one pass of the loop; an exception leaving screen_stock
\* would leave scan_all_stocks too
Iterate ==
    /\ pc = "loop"
    /\ idx < Len(stocks)
    /\ \E resp \in ScanResponses :
         LET row    == stocks[idx + 1]
             result == screen_stock(row.code, row.name, resp, min_volume)
         IN  IF result.st = "raised"
             THEN /\ pc' = "aborted"
                  /\ UNCHANGED <<idx, results, log>>
             ELSE /\ results' = append_if_result(results, result.val)
                  /\ idx' = idx + 1
                  /\ log' = Append(log, [code |-> row.code, kind |-> resp.kind,
                                         rows |-> Len(resp.bars), at |-> result.at])
                  /\ pc' = "loop"
    /\ UNCHANGED <<min_volume, max_stocks, stocks, callVars>>

\* lines 264-265
Finish ==
    /\ pc = "loop"
    /\ idx = Len(stocks)
    /\ pc' = "done"
    /\ ret' = Returned(results)
    /\ UNCHANGED <<min_volume, max_stocks, stocks, idx, results, log, fn, args>>

Next == Start \/ Iterate \/ Finish

Spec == InitScan /\ [][Next]_vars

----------------------------------------------------------------------------
(* Statements checked on single calls (specification SpecCall).  They are    *)
(* written in integer arithmetic on the numerators, independently of the    *)
(* operators above: every defined input of a single call is a whole number. *)

Done(f) == fn = f /\ ret.st # "pending"
Defined(a) == a[2] > 0
\* the whole number a defined input stands for
Whole(a) == a[1]

RECURSIVE IntSum(_, _, _)
\* s[lo] + ... + s[hi] for a sequence of whole numbers
IntSum(s, lo, hi) == IF hi < lo THEN 0 ELSE Whole(s[hi]) + IntSum(s, lo, hi - 1)

\* a fraction equals the quotient p / q of two integers, q > 0
EqualsQuotient(a, p, q) == Defined(a) /\ a[1] * q = p * a[2]

\* the number of defined values at the end of a series
TrailingDefined(s) ==
    IF \A i \in 1..Len(s) : Defined(s[i]) THEN Len(s)
    ELSE Len(s) - (CHOOSE i \in 1..Len(s) : ~Defined(s[i]) /\ \A j \in (i + 1)..Len(s) : Defined(s[j]))

C5_Evaluated(k) ==
    \E i \in 1..Len(args.data) :
        /\ args.data[i].Date = args.signal_dates[k]
        /\ i + args.forward_days <= Len(args.data)
C5_Win(k) ==
    \E i \in 1..Len(args.data) :
        /\ args.data[i].Date = args.signal_dates[k]
        /\ i + args.forward_days <= Len(args.data)
        /\ Whole(args.data[i + args.forward_days].Close) > Whole(args.data[i].Close)
C5_WinRate ==
    (Done("calculate_win_rate") /\ args.forward_days >= 1) =>
        LET evaluated == Cardinality({k \in 1..Len(args.signal_dates) : C5_Evaluated(k)})
            wins      == Cardinality({k \in 1..Len(args.signal_dates) : C5_Win(k)})
        IN  /\ ret.st = "returned"
            /\ IF evaluated = 0 THEN EqualsQuotient(ret.val, 0, 1)
               ELSE EqualsQuotient(ret.val, wins * 100, evaluated)

\* two signals: one won, one too close to the end; the rate is 100
C5_Witness ==
    /\ Done("calculate_win_rate")
    /\ args.forward_days = 2
    /\ Len(args.data) = 3
    /\ args.signal_dates = <<1, 3>>
    /\ EqualsQuotient(ret.val, 100, 1)

\* C6: check_golden_cross is true iff both series have two values at the
\* end, all four defined, with previous short < previous long and current
\* short >= current long.
C6_GoldenCross ==
    Done("check_golden_cross") =>
        LET a == args.ma_short
            b == args.ma_long
            ok == /\ Len(a) >= 2 /\ Len(b) >= 2
                  /\ Defined(a[Len(a) - 1]) /\ Defined(a[Len(a)])
                  /\ Defined(b[Len(b) - 1]) /\ Defined(b[Len(b)])
        IN  /\ ret.st = "returned"
            /\ ~ok => ret.val = FALSE
            /\ ok => /\ ret.val = (/\ Whole(a[Len(a) - 1]) < Whole(b[Len(b) - 1])
                                   /\ Whole(a[Len(a)]) >= Whole(b[Len(b)]))
                     /\ Whole(a[Len(a) - 1]) >= Whole(b[Len(b) - 1]) => ret.val = FALSE

\* below on the previous day, equal on the current day: a cross
C6_Witness ==
    /\ Done("check_golden_cross")
    /\ args.ma_short = <<Num(1), Num(2)>>
    /\ args.ma_long = <<NaN, Num(2), Num(2)>>
    /\ ret.val = TRUE

\* C7: check_bottom_cross_ma200 is true iff low <= ma200 and close > ma200
\* (an undefined input compares false); close = ma200 gives false, and
\* low = ma200 with the close above gives true.
C7_BottomCross ==
    Done("check_bottom_cross_ma200") =>
        LET ok == Defined(args.low) /\ Defined(args.close) /\ Defined(args.ma200)
        IN  /\ ret.st = "returned"
            /\ ~ok => ret.val = FALSE
            /\ ok => /\ ret.val = (/\ Whole(args.low) <= Whole(args.ma200)
                                   /\ Whole(args.close) > Whole(args.ma200))
                     /\ Whole(args.close) = Whole(args.ma200) => ret.val = FALSE
                     /\ (Whole(args.low) = Whole(args.ma200) /\ Whole(args.close) > Whole(args.ma200))
                            => ret.val = TRUE

\* the low touches the average and the close is above it
C7_Witness ==
    /\ Done("check_bottom_cross_ma200")
    /\ args.low = Num(2) /\ args.ma200 = Num(2) /\ args.close = Num(3)
    /\ ret.val = TRUE

\* C9: for 1 <= period <= len(prices) calculate_ma returns a series of the
\* length of prices whose first period-1 entries are undefined and whose
\* entry i >= period is the mean of prices[i-period+1 .. i]; prices is left
\* as it was.
C9_Holds(a, r) ==
    LET P == a.period
    IN  /\ r.st = "returned"
        /\ Len(r.val) = Len(a.prices)
        /\ \A i \in 1..Len(a.prices) :
              IF i < P THEN ~Defined(r.val[i])
              ELSE EqualsQuotient(r.val[i], IntSum(a.prices, i - P + 1, i), P)
C9_MovingAverage ==
    [][(fn = "calculate_ma" /\ ret.st = "pending" /\ ret'.st # "pending"
        /\ 1 <= args.period /\ args.period <= Len(args.prices))
       => (args' = args /\ C9_Holds(args, ret'))]_vars

\* a window of 3 over 5 prices: two undefined entries, then three means
C9_Witness ==
    /\ Done("calculate_ma")
    /\ args.period = 3
    /\ args.prices = <<Num(1), Num(2), Num(4), Num(4), Num(1)>>
    /\ ret.st = "returned"
    /\ ~Defined(ret.val[2])
    /\ EqualsQuotient(ret.val[3], 7, 3)

\* C3: a configuration error fails the call: a moving-average period <= 0,
\* a non-positive trend lookback and a non-positive backtest horizon each
\* end in an error instead of a value.
C3_ConfigErrorsRaise ==
    /\ (Done("calculate_ma") /\ args.period <= 0) => ret.st = "raised"
    /\ (Done("is_ma_trending_up") /\ args.lookback <= 0) => ret.st = "raised"
    /\ (Done("calculate_win_rate") /\ args.forward_days <= 0) => ret.st = "raised"

\* The conditions of the pipeline on a price history, in whole numbers.
\* The sum of the closes of the P days ending on day i
CloseSum(data, P, i) == IntSum([j \in 1..Len(data) |-> data[j].Close], i - P + 1, i)
\* The traded value (close * volume) summed over the last TAIL days
TradedSum(data) ==
    IntSum([j \in 1..Len(data) |-> Num(Whole(data[j].Close) * data[j].Volume)],
           Len(data) - TAIL + 1, Len(data))
EnoughHistory(data) == Len(data) >= MIN_BARS
Liquid(data, minvol) == TradedSum(data) >= minvol * TAIL
\* the long average has DEFAULT_LOOKBACK defined trailing values whose
\* least-squares slope is positive
LongTrendUp(data) ==
    LET n == Len(data)
        L == DEFAULT_LOOKBACK
    IN  /\ n >= MA_LONG + L - 1
        /\ IntSum([j \in 1..L |-> Num((2 * (j - 1) - (L - 1)) * CloseSum(data, MA_LONG, n - L + j))],
                  1, L) > 0
BottomCross(data) ==
    LET n == Len(data)
    IN  /\ n >= MA_LONG
        /\ Whole(data[n].Low) * MA_LONG <= CloseSum(data, MA_LONG, n)
        /\ CloseSum(data, MA_LONG, n) < Whole(data[n].Close) * MA_LONG
GoldenCross(data) ==
    LET n == Len(data)
    IN  /\ n >= MA_MID + 1 /\ n >= MA_SHORT + 1
        /\ CloseSum(data, MA_SHORT, n - 1) * MA_MID < CloseSum(data, MA_MID, n - 1) * MA_SHORT
        /\ CloseSum(data, MA_SHORT, n) * MA_MID >= CloseSum(data, MA_MID, n) * MA_SHORT
ExpectedState(data, minvol) ==
    IF ~EnoughHistory(data) THEN "InsufficientHistory"
    ELSE IF ~Liquid(data, minvol) THEN "IlliquidHistory"
    ELSE IF ~LongTrendUp(data) THEN "NoUptrend"
    ELSE IF ~(BottomCross(data) \/ GoldenCross(data)) THEN "NoSignal"
    ELSE "Accepted"

\* C1: on a price history screen_stock returns a result iff the history has
\* MIN_BARS days, the mean traded value of the last TAIL days is at least
\* min_volume, the long average trends up over the last 5 points and there is
\* a bottom cross or a golden cross; otherwise it ends in the first failing
\* check's rejection state, returns None and raises nothing.
C1_AcceptIffAllChecks ==
    (Done("screen_stock") /\ args.resp.kind = "ok") =>
        LET data == args.resp.bars
            expected == ExpectedState(data, min_volume)
        IN  /\ ret.st = "returned"
            /\ ret.at = expected
            /\ IsNone(ret.val) <=> (expected # "Accepted")
            /\ ~IsNone(ret.val) =>
                  /\ (ret.val.bottom_cross = "yes") <=> BottomCross(data)
                  /\ (ret.val.golden_cross = "yes") <=> GoldenCross(data)

\* accepted on a golden cross alone
C1_Witness ==
    /\ Done("screen_stock") /\ args.resp.kind = "ok"
    /\ ret.at = "Accepted"
    /\ ~IsNone(ret.val)
    /\ ret.val.golden_cross = "yes" /\ ret.val.bottom_cross = "-"

\* C8: the tier of an accepted result follows from the mean traded value of
\* the last TAIL days alone, with inclusive lower bounds 100,000,000 (stable)
\* and 10,000,000 (standard), and that mean is the value stored in the
\* result and the one compared with min_volume.
C8_LiquidityTier ==
    (Done("screen_stock") /\ ~IsNone(ret.val)) =>
        LET traded == TradedSum(args.resp.bars)
            avg    == ret.val.avg_volume_30d
            tag    == ret.val.risk_tag
        IN  /\ EqualsQuotient(avg, traded, TAIL)
            /\ traded >= min_volume * TAIL
            /\ tag = (IF traded >= STABLE_MIN * TAIL THEN "stable"
                      ELSE IF traded >= STANDARD_MIN * TAIL THEN "standard"
                      ELSE "speculative")
            /\ EqualsQuotient(avg, 100000000, 1) => tag = "stable"
            /\ EqualsQuotient(avg, 99999999, 1) => tag = "standard"
            /\ EqualsQuotient(avg, 10000000, 1) => tag = "standard"
            /\ EqualsQuotient(avg, 9999999, 1) => tag = "speculative"

\* an accepted result whose mean traded value is 99,999,999: standard
C8_Witness ==
    /\ Done("screen_stock") /\ ~IsNone(ret.val)
    /\ EqualsQuotient(ret.val.avg_volume_30d, 99999999, 1)
    /\ ret.val.risk_tag = "standard"

----------------------------------------------------------------------------
(* Statements checked on the scan (specification Spec) *)

\* the provider failed for the symbol: an error, a malformed frame, no rows
Failed(entry) == entry.kind \in {"error", "malformed"} \/ entry.rows = 0

CodesOf(q) == [i \in 1..Len(q) |-> q[i].code]
AcceptedOf(q) == SelectSeq(q, LAMBDA e : e.at = "Accepted")

\* C2: a symbol's failure never aborts the scan: the scan is never aborted,
\* every row consumed so far was evaluated in list order whatever failed
\* before it, a failing symbol is rejected and has no record, the loop can
\* always go on, and at the end every row was evaluated and the list returned.
C2_FailureNeverAborts ==
    /\ pc # "aborted"
    /\ pc \in {"loop", "done"} =>
          /\ Len(log) = idx
          /\ idx <= Len(stocks)
          /\ CodesOf(log) = CodesOf(SubSeq(stocks, 1, idx))
          /\ \A i \in 1..Len(log) : Failed(log[i]) =>
                /\ log[i].at # "Accepted"
                /\ \A k \in 1..Len(results) : results[k].code # log[i].code
    /\ pc = "loop" => ENABLED Next
    /\ pc = "done" =>
          /\ idx = Len(stocks)
          /\ ret.st = "returned"
          /\ ret.val = results

\* the scan ended after an error, a malformed frame and then an accepted symbol
C2_Witness ==
    /\ pc = "done"
    /\ Len(log) = 3
    /\ log[1].kind = "error" /\ log[1].at = "Error"
    /\ log[2].kind = "malformed" /\ log[2].at = "Error"
    /\ log[3].at = "Accepted"
    /\ Len(results) = 1 /\ results[1].code = stocks[3].code

\* C10: at every point of the scan the result list holds exactly the
\* accepted symbols among the rows consumed so far, once each and in list
\* order, so it is never longer than the number of rows consumed; and a step
\* only ever appends to it.
C10_ListInvariant ==
    pc \in {"loop", "done"} =>
        /\ CodesOf(results) = CodesOf(AcceptedOf(log))
        /\ Len(results) <= idx
        /\ \A j, k \in 1..Len(results) : results[j].code = results[k].code => j = k
        /\ \A k \in 1..Len(results) : \E i \in 1..idx : stocks[i].code = results[k].code
C10_ResultsOrderedAppendOnly ==
    /\ []C10_ListInvariant
    /\ [][/\ Len(results') >= Len(results)
          /\ SubSeq(results', 1, Len(results)) = results]_vars

\* two accepted symbols with a rejected one between them
C10_Witness ==
    /\ pc = "done"
    /\ Len(log) = 3
    /\ log[1].at = "Accepted" /\ log[2].at = "NoSignal" /\ log[3].at = "Accepted"
    /\ Len(results) = 2
    /\ results[1].code = stocks[1].code /\ results[2].code = stocks[3].code

====
